---- MODULE Spec2Model ----
(***************************************************************************)
(* Booking lifecycle and payment settlement of the ClubSwap rental         *)
(* marketplace: bookingsRouter (create, approve, decline, cancel,          *)
(* complete), stripeService.calculateFees and the gateway calls they make. *)
(*                                                                         *)
(* Money is in cents.  Dates are whole-day numbers; the clock `now` counts *)
(* half days, so that a cancellation can happen in the middle of a day.    *)
(* Every handler is an async function: each action below is the code       *)
(* between two awaits that touch shared state (the database or the payment *)
(* gateway), so calls of several users interleave exactly at the awaits.   *)
(***************************************************************************)
EXTENDS Integers, Sequences, FiniteSets, TLC

(* ------------------------------ bounds --------------------------------- *)
MaxDay == 2          \* request dates range over 0..MaxDay
MaxNow == 1          \* the clock stops after MaxNow half days
MaxBookings == 2     \* bookings rows
MaxCalls == 3        \* handler invocations in one behaviour
MaxStartDay == 8     \* SpecCancel: the booking starts on day 0..MaxStartDay
MaxAmount == 1000    \* SpecFees: rental amounts 0..MaxAmount cents
MaxRentalDays == 10  \* SpecPricing: rentals of 1..MaxRentalDays days

(* ------------------------- program constants --------------------------- *)
PLATFORM_FEE_PERCENTAGE == 12
STRIPE_FEE_PERMILLE == 29       \* STRIPE_FEE_PERCENTAGE 2.9 percent
STRIPE_FEE_FIXED == 30          \* 0.30 in cents
FLEXIBLE_DAYS == 1
MODERATE_DAYS == 5
STRICT_DAYS == 7
REVIEW_WINDOW_DAYS == 14        \* addDays(new Date(), -14)

(* ------------------------------ domains -------------------------------- *)
Procs == {"c1", "c2"}                       \* concurrent request handlers
Users == {"owner", "renter", "other"}
Renters == {"renter"}                       \* users who send bookings.create
Listings == {"L1"}
Days == 0..MaxDay
DailyRates == {2000, 2500}
PickupMethods == {"owner_location", "delivery"}
CancellationPolicies == {"flexible", "moderate", "strict"}
ReviewOps == {"createListingReview", "createRenterReview"}
Ratings == {1, 5}                           \* overall_rating is in 1..5
NoId == 0                                   \* SQL NULL of an id column
NoTime == -1                                \* SQL NULL of a timestamp column

VARIABLES listings, bookings, intents, refunds, calls, now, ncalls,
          response, quoted, reviews, profiles

\* What no bookingsRouter procedure writes: the last result of
\* stripeService.calculateFees handed to a caller, the reviews table and the
\* rating columns of profiles.
apart == <<quoted, reviews, profiles>>

vars == <<listings, bookings, intents, refunds, calls, now, ncalls,
          response, quoted, reviews, profiles>>

(* --------------------------- Fee Calculator ---------------------------- *)
\* Amounts (cents) at which the IEEE-754 double value of
\* rentalAmount * (2.9 / 100) + 0.30, times 100, falls just below the .5 tie,
\* so that Math.round rounds it down (all ties up to 1000.00).
ServiceFeeTieBelow ==
  {500, 1500, 2500, 6500, 7500, 8500, 12500, 16500, 17500, 18500, 19500,
   20500, 21500, 22500, 23500, 24500, 25500, 56500, 57500, 61500, 65500,
   69500, 74500, 91500, 95500, 99500}

\* The same for (rentalAmount + stripeFee) * 100.
TotalChargeTieBelow == {7500, 15500, 27500, 56500, 59500, 62500}

\* Math.round(x * 100) / 100 of x = num / den dollars-in-cents, exact half up.
RoundHalfUp(num, den) == (2 * num + den) \div (2 * den)

calculateFees(rentalAmount) ==
  LET stripeFeeMilli == rentalAmount * STRIPE_FEE_PERMILLE + 1000 * STRIPE_FEE_FIXED
      stripeFee == RoundHalfUp(stripeFeeMilli, 1000)
                     - (IF rentalAmount \in ServiceFeeTieBelow THEN 1 ELSE 0)
      total == RoundHalfUp(1000 * rentalAmount + stripeFeeMilli, 1000)
                     - (IF rentalAmount \in TotalChargeTieBelow THEN 1 ELSE 0)
  IN [rentalAmount |-> rentalAmount,
      platformFee |-> RoundHalfUp(rentalAmount * PLATFORM_FEE_PERCENTAGE, 100),
      stripeFee |-> stripeFee,
      serviceFee |-> stripeFee,
      ownerEarnings |->
        RoundHalfUp(rentalAmount * (100 - PLATFORM_FEE_PERCENTAGE), 100),
      totalCharge |-> total]

(* ------------------------------ helpers -------------------------------- *)
\* date-fns differenceInDays of two calendar dates.
differenceInDays(endDate, startDate) == endDate - startDate

\* differenceInDays(new Date(start_date), new Date()): full days, truncated
\* toward zero; the clock is in half days.
daysUntilStart(startDate, nowHalf) ==
  LET d == 2 * startDate - nowHalf
  IN IF d >= 0 THEN d \div 2 ELSE -((-d) \div 2)

\* A rental fee that ignores the weekly rate.
totalRentalFeeDaily(rentalDays, listing) == rentalDays * listing.daily_rate

totalRentalFee(rentalDays, listing) ==
  IF rentalDays >= 7 /\ listing.weekly_rate # 0
    THEN (rentalDays \div 7) * listing.weekly_rate
           + (rentalDays % 7) * listing.daily_rate
    ELSE rentalDays * listing.daily_rate

\* An availability query over half-open ranges: a booking that ends on the
\* candidate's first day is no conflict.
conflictingBookingsHalfOpen(listingId, startDate, endDate) ==
  {b \in 1..Len(bookings) :
     /\ bookings[b].listing_id = listingId
     /\ bookings[b].status \in {"confirmed", "in_progress"}
     /\ bookings[b].start_date <= endDate
     /\ bookings[b].end_date > startDate}

\* The availability query of bookings.create.
conflictingBookings(listingId, startDate, endDate) ==
  {b \in 1..Len(bookings) :
     /\ bookings[b].listing_id = listingId
     /\ bookings[b].status \in {"confirmed", "in_progress"}
     /\ bookings[b].start_date <= endDate
     /\ bookings[b].end_date >= startDate}

\* Refund of bookings.cancel, in half cents (total_amount * 0.5 need not be
\* a whole number of cents).
refundAmount(policy, days, total_amount) ==
  IF policy = "flexible" /\ days >= FLEXIBLE_DAYS THEN 2 * total_amount
  ELSE IF policy = "moderate" /\ days >= MODERATE_DAYS THEN 2 * total_amount
  ELSE IF policy = "strict" /\ days >= STRICT_DAYS THEN total_amount
  ELSE 0

NoRow ==
  [listing_id |-> "none", renter_id |-> "none", owner_id |-> "none",
   start_date |-> 0, end_date |-> 0, rental_days |-> 0,
   daily_rate |-> 0, total_rental_fee |-> 0, service_fee |-> 0,
   security_deposit |-> 0, delivery_fee |-> 0, total_amount |-> 0,
   stripe_payment_intent_id |-> NoId, stripe_deposit_hold_id |-> NoId,
   deposit_released |-> FALSE, deposit_release_date |-> NoTime,
   renter_reviewed |-> FALSE, owner_reviewed |-> FALSE,
   status |-> "pending",
   confirmed_at |-> NoTime, cancelled_at |-> NoTime, completed_at |-> NoTime]

IdleCall ==
  [op |-> "none", pc |-> "idle", caller |-> "none", bid |-> 0,
   row |-> NoRow, instant |-> FALSE, seen |-> 0, refund |-> 0, rating |-> 0,
   applied |-> 0]

InFlight(p) == calls[p].pc # "idle"

(* ------------------------------- Init ---------------------------------- *)
\* A profile's rating columns; ratings are in hundredths (DECIMAL(3, 2)).
ProfileRow == [overall_rating |-> 0, total_reviews |-> 0]

\* No call has returned yet; no review, no rating, no fee quote asked for.
InitApart ==
  /\ response = "none"
  /\ quoted = calculateFees(0)
  /\ reviews = <<>>
  /\ profiles = [u \in Users |-> ProfileRow]

ListingRow(instant, policy, rate) ==
  [owner_id |-> "owner", daily_rate |-> rate, weekly_rate |-> 0,
   security_deposit |-> 10000, delivery_fee |-> 1500,
   minimum_rental_days |-> 1, maximum_rental_days |-> 0,
   instant_booking |-> instant, cancellation_policy |-> policy,
   is_active |-> TRUE, is_draft |-> FALSE,
   average_rating |-> 0, total_reviews |-> 0]

\* The listing is a request-to-book or an instant-booking listing.
Init ==
  /\ \E instant \in BOOLEAN :
       listings = [l \in Listings |-> ListingRow(instant, "flexible", 2500)]
  /\ bookings = <<>>
  /\ intents = <<>>
  /\ refunds = <<>>
  /\ calls = [p \in Procs |-> IdleCall]
  /\ now = 0
  /\ ncalls = 0
  /\ InitApart

(* ------------------------- call bookkeeping ---------------------------- *)
\* A request handler passes its checks and starts on the free slot p (the
\* first free slot: the slots are interchangeable).
Start(p, c) ==
  /\ ~InFlight(p)
  /\ \A q \in Procs : ~InFlight(q) => p = "c1" \/ q = "c2"
  /\ ncalls < MaxCalls
  /\ ncalls' = ncalls + 1
  /\ calls' = [calls EXCEPT ![p] = c]
  /\ UNCHANGED response

\* The handler on slot p returns ("success") or throws ("error"): the caller
\* gets the outcome and the slot is free again.
Finish(p, outcome) ==
  /\ calls' = [calls EXCEPT ![p] = IdleCall]
  /\ response' = outcome

\* The handler on slot p goes on to its next await.
Goto(p, pc) ==
  /\ calls' = [calls EXCEPT ![p].pc = pc]
  /\ UNCHANGED response

\* The same after a gateway call of the handler has taken effect; `applied`
\* counts the gateway effects of the call.
Applied(p, pc) ==
  /\ calls' = [calls EXCEPT ![p].pc = pc, ![p].applied = @ + 1]
  /\ UNCHANGED response

\* What the caller gets: the handler's return value, or the error it throws.
Outcome(ok) == IF ok THEN "success" ELSE "error"

(* ------------------------- payment gateway ----------------------------- *)
\* stripe.paymentIntents.create: a new intent, its id is its index.
NewIntent(kind) == [kind |-> kind, status |-> "open", cancels |-> 0]

\* stripeService.releaseDeposit: stripe.paymentIntents.cancel(id).
releaseDeposit(id) ==
  [intents EXCEPT ![id].status = "canceled", ![id].cancels = @ + 1]

\* stripeService.createRefund: stripe.refunds.create for a payment intent,
\* with amount Math.round(amount * 100) cents.  The amount comes in half
\* cents; for the totals of this model's listings the double product
\* amount * 100 is exactly x.5 when the amount ends on half a cent, and
\* Math.round rounds it up.
createRefund(id, amount) ==
  Append(refunds, [payment_intent |-> id, amount |-> RoundHalfUp(amount, 2)])

(* -------------------------- bookings.create ---------------------------- *)
\* The booking row bookings.create computes from the listing it loaded.
DraftRow(caller, l, listing, startDate, endDate, pickup) ==
  LET rentalDays == differenceInDays(endDate, startDate)
      rentalFee == totalRentalFee(rentalDays, listing)
      fees == calculateFees(rentalFee)
      deliveryFee == IF pickup = "delivery" THEN listing.delivery_fee ELSE 0
  IN [NoRow EXCEPT
        !.listing_id = l, !.renter_id = caller, !.owner_id = listing.owner_id,
        !.start_date = startDate, !.end_date = endDate,
        !.rental_days = rentalDays, !.daily_rate = listing.daily_rate,
        !.total_rental_fee = rentalFee, !.service_fee = fees.serviceFee,
        !.security_deposit = listing.security_deposit,
        !.delivery_fee = deliveryFee,
        !.total_amount = fees.totalCharge + deliveryFee]

\* Checks of bookings.create without the rental-window validation.
CreateAcceptsAnyWindow(l, startDate, endDate) ==
  /\ l \in Listings
  /\ conflictingBookings(l, startDate, endDate) = {}

\* The checks of bookings.create before the payment authorization: the
\* listing exists, the rental window is valid, no conflicting booking.
CreateAccepts(l, startDate, endDate) ==
  /\ l \in Listings
  /\ ~(differenceInDays(endDate, startDate) < listings[l].minimum_rental_days)
  /\ ~(/\ listings[l].maximum_rental_days # 0
       /\ differenceInDays(endDate, startDate) > listings[l].maximum_rental_days)
  /\ conflictingBookings(l, startDate, endDate) = {}

\* The reads of bookings.create (listing, availability query) up to the
\* first gateway call; `seen` is the number of rows the query could see.
CreateBegin(p, caller, l, startDate, endDate, pickup) ==
  /\ Len(bookings) + Cardinality({q \in Procs : calls[q].op = "create"})
       < MaxBookings
  /\ CreateAccepts(l, startDate, endDate)
  /\ Start(p, [IdleCall EXCEPT
       !.op = "create", !.pc = "createPaymentIntent", !.caller = caller,
       !.instant = listings[l].instant_booking,
       !.seen = Len(bookings),
       !.row = DraftRow(caller, l, listings[l], startDate, endDate, pickup)])
  /\ UNCHANGED <<listings, bookings, intents, refunds, now, apart>>

CreatePaymentIntent(p) ==
  /\ calls[p].op = "create" /\ calls[p].pc = "createPaymentIntent"
  /\ \E ok \in BOOLEAN :
       IF ok
         THEN /\ intents' = Append(intents, NewIntent("payment"))
              /\ calls' = [calls EXCEPT
                   ![p].pc = "createDepositHold",
                   ![p].applied = @ + 1,
                   ![p].row.stripe_payment_intent_id = Len(intents) + 1]
              /\ UNCHANGED response
         ELSE /\ Finish(p, "error")
              /\ UNCHANGED intents
  /\ UNCHANGED <<listings, bookings, refunds, now, ncalls, apart>>

\* A create that goes on to the insert although the deposit hold was refused.
AfterDepositHoldIgnoringFailure(call, intentId) ==
  [call EXCEPT !.pc = "insert", !.row.stripe_deposit_hold_id = intentId]

\* What createDepositHold leaves of the call: the hold's id and the next
\* await when the gateway accepts (intentId # NoId), a thrown error otherwise.
AfterDepositHold(call, intentId) ==
  IF intentId # NoId
    THEN [call EXCEPT !.pc = "insert", !.applied = @ + 1,
                      !.row.stripe_deposit_hold_id = intentId]
    ELSE IdleCall

CreateDepositHold(p) ==
  /\ calls[p].op = "create" /\ calls[p].pc = "createDepositHold"
  /\ \E ok \in BOOLEAN :
       /\ intents' = IF ok THEN Append(intents, NewIntent("deposit")) ELSE intents
       /\ calls' = [calls EXCEPT
            ![p] = AfterDepositHold(calls[p], IF ok THEN Len(intents) + 1 ELSE NoId)]
       /\ response' = IF InFlight(p)' THEN response ELSE "error"
  /\ UNCHANGED <<listings, bookings, refunds, now, ncalls, apart>>

\* An insert that creates every booking as a request.
InsertedRowAlwaysPending(row, instant) ==
  [row EXCEPT !.status = "pending", !.confirmed_at = NoTime]

\* The row as inserted: status and confirmed_at follow listing.instant_booking.
InsertedRow(row, instant) ==
  [row EXCEPT !.status = IF instant THEN "confirmed" ELSE "pending",
              !.confirmed_at = IF instant THEN now ELSE NoTime]

\* Insert the booking row, then send the notifications. The notifications
\* touch no state, but the handler awaits them outside any try of their own:
\* a send that fails (sent = FALSE) throws out of the handler after the insert.
CreateInsert(p) ==
  /\ calls[p].op = "create" /\ calls[p].pc = "insert"
  /\ \E dbok \in BOOLEAN, sent \in BOOLEAN :
       /\ bookings' = IF dbok
                        THEN Append(bookings, InsertedRow(calls[p].row, calls[p].instant))
                        ELSE bookings
       /\ Finish(p, Outcome(dbok /\ sent))
  /\ UNCHANGED <<listings, intents, refunds, now, ncalls, apart>>

(* ---------------------------- guards ----------------------------------- *)
BookingFound(bid) == bid \in 1..Len(bookings)

\* An owner check that lets every signed-in user through.
IsAnyUser(caller, bid) == caller \in Users

\* booking.owner_id !== ctx.user.id throws 'Unauthorized'.
IsOwner(caller, bid) == bookings[bid].owner_id = caller

\* cancel: the caller is the renter or the owner.
IsParty(caller, bid) ==
  bookings[bid].renter_id = caller \/ bookings[bid].owner_id = caller

\* approve and decline: booking.status !== 'pending' throws.
IsPending(bid) == bookings[bid].status = "pending"

(* -------------------------- bookings.approve --------------------------- *)
ApproveBegin(p, caller, bid) ==
  /\ BookingFound(bid)
  /\ IsOwner(caller, bid)
  /\ IsPending(bid)
  /\ Start(p, [IdleCall EXCEPT !.op = "approve", !.pc = "update",
                               !.caller = caller, !.bid = bid])
  /\ UNCHANGED <<listings, bookings, intents, refunds, now, apart>>

\* Update by id, then send the confirmation email. The email touches no
\* state, but sendBookingConfirmation is awaited outside any try: a send that
\* fails (sent = FALSE) throws out of the handler after the update.
ApproveUpdate(p) ==
  /\ calls[p].op = "approve" /\ calls[p].pc = "update"
  /\ \E dbok \in BOOLEAN, sent \in BOOLEAN :
       /\ bookings' = IF dbok
                        THEN [bookings EXCEPT ![calls[p].bid].status = "confirmed",
                                              ![calls[p].bid].confirmed_at = now]
                        ELSE bookings
       /\ Finish(p, Outcome(dbok /\ sent))
  /\ UNCHANGED <<listings, intents, refunds, now, ncalls, apart>>

(* -------------------------- bookings.decline --------------------------- *)
\* Where decline continues after the step at pc (absent ids are skipped).
\* The ids of a row never change after the insert, so the ids of the row
\* the handler read are those of the stored row.
DeclineNext(row, pc) ==
  IF pc = "begin" /\ row.stripe_payment_intent_id # NoId THEN "releasePayment"
  ELSE IF pc \in {"begin", "releasePayment"} /\ row.stripe_deposit_hold_id # NoId
    THEN "releaseDeposit"
  ELSE "update"

DeclineBegin(p, caller, bid) ==
  /\ BookingFound(bid)
  /\ IsOwner(caller, bid)
  /\ IsPending(bid)
  /\ Start(p, [IdleCall EXCEPT !.op = "decline",
                               !.pc = DeclineNext(bookings[bid], "begin"),
                               !.caller = caller, !.bid = bid])
  /\ UNCHANGED <<listings, bookings, intents, refunds, now, apart>>

DeclineReleasePayment(p) ==
  /\ calls[p].op = "decline" /\ calls[p].pc = "releasePayment"
  /\ \E ok \in BOOLEAN :
       IF ok
         THEN /\ intents' = releaseDeposit(bookings[calls[p].bid].stripe_payment_intent_id)
              /\ Applied(p, DeclineNext(bookings[calls[p].bid], "releasePayment"))
         ELSE /\ Finish(p, "error")
              /\ UNCHANGED intents
  /\ UNCHANGED <<listings, bookings, refunds, now, ncalls, apart>>

DeclineReleaseDeposit(p) ==
  /\ calls[p].op = "decline" /\ calls[p].pc = "releaseDeposit"
  /\ \E ok \in BOOLEAN :
       IF ok
         THEN /\ intents' = releaseDeposit(bookings[calls[p].bid].stripe_deposit_hold_id)
              /\ Applied(p, "update")
         ELSE /\ Finish(p, "error")
              /\ UNCHANGED intents
  /\ UNCHANGED <<listings, bookings, refunds, now, ncalls, apart>>

DeclineUpdate(p) ==
  /\ calls[p].op = "decline" /\ calls[p].pc = "update"
  /\ \E dbok \in BOOLEAN :
       /\ bookings' = IF dbok
                        THEN [bookings EXCEPT ![calls[p].bid].status = "declined"]
                        ELSE bookings
       /\ Finish(p, Outcome(dbok))
  /\ UNCHANGED <<listings, intents, refunds, now, ncalls, apart>>

(* --------------------------- bookings.cancel --------------------------- *)
CancelNext(row, refund, pc) ==
  IF pc = "begin" /\ refund > 0 /\ row.stripe_payment_intent_id # NoId
    THEN "createRefund"
  ELSE IF pc \in {"begin", "createRefund"} /\ row.stripe_deposit_hold_id # NoId
    THEN "releaseDeposit"
  ELSE "update"

\* The refund cancel computes from the row it read, the joined listing's
\* policy and the time of the call.
CancelRefundAmount(row) ==
  refundAmount(listings[row.listing_id].cancellation_policy,
               daysUntilStart(row.start_date, now), row.total_amount)

\* The checks of bookings.cancel before the refund.
CancelAccepts(caller, bid) ==
  /\ BookingFound(bid)
  /\ IsParty(caller, bid)

CancelBegin(p, caller, bid) ==
  /\ CancelAccepts(caller, bid)
  /\ Start(p, [IdleCall EXCEPT !.op = "cancel",
                 !.pc = CancelNext(bookings[bid],
                                   CancelRefundAmount(bookings[bid]), "begin"),
                 !.caller = caller, !.bid = bid,
                 !.refund = CancelRefundAmount(bookings[bid])])
  /\ UNCHANGED <<listings, bookings, intents, refunds, now, apart>>

CancelRefund(p) ==
  /\ calls[p].op = "cancel" /\ calls[p].pc = "createRefund"
  /\ \E ok \in BOOLEAN :
       IF ok
         THEN /\ refunds' = createRefund(bookings[calls[p].bid].stripe_payment_intent_id,
                                         calls[p].refund)
              /\ Applied(p, CancelNext(bookings[calls[p].bid], calls[p].refund,
                                       "createRefund"))
         ELSE /\ Finish(p, "error")
              /\ UNCHANGED refunds
  /\ UNCHANGED <<listings, bookings, intents, now, ncalls, apart>>

CancelReleaseDeposit(p) ==
  /\ calls[p].op = "cancel" /\ calls[p].pc = "releaseDeposit"
  /\ \E ok \in BOOLEAN :
       IF ok
         THEN /\ intents' = releaseDeposit(bookings[calls[p].bid].stripe_deposit_hold_id)
              /\ Applied(p, "update")
         ELSE /\ Finish(p, "error")
              /\ UNCHANGED intents
  /\ UNCHANGED <<listings, bookings, refunds, now, ncalls, apart>>

CancelUpdate(p) ==
  /\ calls[p].op = "cancel" /\ calls[p].pc = "update"
  /\ \E dbok \in BOOLEAN :
       /\ bookings' = IF dbok
                        THEN [bookings EXCEPT ![calls[p].bid].status = "cancelled",
                                              ![calls[p].bid].cancelled_at = now]
                        ELSE bookings
       /\ Finish(p, Outcome(dbok))
  /\ UNCHANGED <<listings, intents, refunds, now, ncalls, apart>>

(* -------------------------- bookings.complete -------------------------- *)
\* The checks of bookings.complete before the deposit release.
CompleteAccepts(caller, bid) ==
  /\ BookingFound(bid)
  /\ IsOwner(caller, bid)

CompleteBegin(p, caller, bid) ==
  /\ CompleteAccepts(caller, bid)
  /\ Start(p, [IdleCall EXCEPT !.op = "complete",
                 !.pc = IF /\ bookings[bid].stripe_deposit_hold_id # NoId
                           /\ ~bookings[bid].deposit_released
                          THEN "releaseDeposit" ELSE "update",
                 !.caller = caller, !.bid = bid])
  /\ UNCHANGED <<listings, bookings, intents, refunds, now, apart>>

CompleteReleaseDeposit(p) ==
  /\ calls[p].op = "complete" /\ calls[p].pc = "releaseDeposit"
  /\ \E ok \in BOOLEAN :
       IF ok
         THEN /\ intents' = releaseDeposit(bookings[calls[p].bid].stripe_deposit_hold_id)
              /\ Applied(p, "update")
         ELSE /\ Finish(p, "error")
              /\ UNCHANGED intents
  /\ UNCHANGED <<listings, bookings, refunds, now, ncalls, apart>>

CompleteUpdate(p) ==
  /\ calls[p].op = "complete" /\ calls[p].pc = "update"
  /\ \E dbok \in BOOLEAN :
       /\ bookings' = IF dbok
                        THEN [bookings EXCEPT
                                ![calls[p].bid].status = "completed",
                                ![calls[p].bid].completed_at = now,
                                ![calls[p].bid].deposit_released = TRUE,
                                ![calls[p].bid].deposit_release_date = now]
                        ELSE bookings
       /\ Finish(p, Outcome(dbok))
  /\ UNCHANGED <<listings, intents, refunds, now, ncalls, apart>>

(* --------------------------- environment ------------------------------- *)
\* listings.update: the owner edits the listing's daily rate.
UpdateListing(l, rate) ==
  /\ listings[l].daily_rate # rate
  /\ ncalls < MaxCalls
  /\ ncalls' = ncalls + 1
  /\ listings' = [listings EXCEPT ![l].daily_rate = rate]
  /\ UNCHANGED <<bookings, intents, refunds, calls, now, response, apart>>

\* Half a day passes.
Tick ==
  /\ now < MaxNow
  /\ now' = now + 1
  /\ UNCHANGED <<listings, bookings, intents, refunds, calls, ncalls, response,
                 apart>>

Next ==
  \/ \E p \in Procs, caller \in Renters, l \in Listings \cup {"L0"},
        startDate \in Days, endDate \in Days, pickup \in PickupMethods :
       CreateBegin(p, caller, l, startDate, endDate, pickup)
  \/ \E p \in Procs : CreatePaymentIntent(p)
  \/ \E p \in Procs : CreateDepositHold(p)
  \/ \E p \in Procs : CreateInsert(p)
  \/ \E p \in Procs, caller \in Users, bid \in 1..MaxBookings :
       ApproveBegin(p, caller, bid)
  \/ \E p \in Procs : ApproveUpdate(p)
  \/ \E p \in Procs, caller \in Users, bid \in 1..MaxBookings :
       DeclineBegin(p, caller, bid)
  \/ \E p \in Procs : DeclineReleasePayment(p)
  \/ \E p \in Procs : DeclineReleaseDeposit(p)
  \/ \E p \in Procs : DeclineUpdate(p)
  \/ \E p \in Procs, caller \in Users, bid \in 1..MaxBookings :
       CancelBegin(p, caller, bid)
  \/ \E p \in Procs : CancelRefund(p)
  \/ \E p \in Procs : CancelReleaseDeposit(p)
  \/ \E p \in Procs : CancelUpdate(p)
  \/ \E p \in Procs, caller \in Users, bid \in 1..MaxBookings :
       CompleteBegin(p, caller, bid)
  \/ \E p \in Procs : CompleteReleaseDeposit(p)
  \/ \E p \in Procs : CompleteUpdate(p)
  \/ \E l \in Listings, rate \in DailyRates : UpdateListing(l, rate)
  \/ Tick

Spec == Init /\ [][Next]_vars

(* ----------------------- cancellation alone ---------------------------- *)
\* A booking as bookings.create stores it on an instant-booking listing, with
\* its payment intent 1 and its deposit hold 2.
StoredRow(l, listing, startDate, endDate, pickup) ==
  [DraftRow("renter", l, listing, startDate, endDate, pickup) EXCEPT
     !.stripe_payment_intent_id = 1, !.stripe_deposit_hold_id = 2,
     !.status = "confirmed", !.confirmed_at = 0]

\* One confirmed booking of one day, made at time 0, on a listing of any
\* cancellation policy, starting any number of days ahead.
InitCancel ==
  /\ \E policy \in CancellationPolicies, startDate \in 0..MaxStartDay,
        pickup \in PickupMethods :
       /\ listings = [l \in Listings |-> ListingRow(TRUE, policy, 2500)]
       /\ bookings = <<StoredRow("L1", ListingRow(TRUE, policy, 2500),
                                 startDate, startDate + 1, pickup)>>
  /\ intents = <<NewIntent("payment"), NewIntent("deposit")>>
  /\ refunds = <<>>
  /\ calls = [p \in Procs |-> IdleCall]
  /\ now = 0
  /\ ncalls = 1
  /\ InitApart

NextCancel ==
  \/ \E p \in Procs, caller \in Users, bid \in 1..MaxBookings :
       CancelBegin(p, caller, bid)
  \/ \E p \in Procs : CancelRefund(p)
  \/ \E p \in Procs : CancelReleaseDeposit(p)
  \/ \E p \in Procs : CancelUpdate(p)
  \/ Tick

SpecCancel == InitCancel /\ [][NextCancel]_vars

(* ------------------------------ reviews ------------------------------- *)
\* The review type an operation submits, and the counterpart's type.
reviewType(op) == IF op = "createListingReview" THEN "listing" ELSE "renter"

counterpartType(op) == IF op = "createListingReview" THEN "renter" ELSE "listing"

\* supabase .single(): the row when exactly one row matches, null (0) when
\* none or several do.
single(rows) == IF Cardinality(rows) = 1 THEN CHOOSE r \in rows : TRUE ELSE 0

\* The "already reviewed" query.
existingReview(bid, reviewer, type) ==
  single({r \in 1..Len(reviews) :
            /\ reviews[r].booking_id = bid
            /\ reviews[r].reviewer_id = reviewer
            /\ reviews[r].review_type = type})

\* The "both parties have reviewed" query.
counterpartReview(bid, type) ==
  single({r \in 1..Len(reviews) :
            reviews[r].booking_id = bid /\ reviews[r].review_type = type})

\* bookingEndDate < fourteenDaysAgo; dates are days, the clock half days.
windowElapsed(endDate, nowHalf) == 2 * endDate < nowHalf - 2 * REVIEW_WINDOW_DAYS

\* The renter submits listing reviews, the owner renter reviews.
IsReviewer(op, caller, bid) ==
  IF op = "createListingReview"
    THEN bookings[bid].renter_id = caller
    ELSE bookings[bid].owner_id = caller

IsCompleted(bid) == bookings[bid].status = "completed"

\* The checks of a review submission before the insert.
ReviewAccepts(op, caller, bid) ==
  /\ BookingFound(bid)
  /\ IsReviewer(op, caller, bid)
  /\ IsCompleted(bid)
  /\ existingReview(bid, caller, reviewType(op)) = 0

\* The inserted review row; published_at is null.
NewReview(op, caller, bid, rating) ==
  [booking_id |-> bid, reviewer_id |-> caller,
   reviewee_id |-> IF op = "createListingReview"
                     THEN bookings[bid].owner_id ELSE bookings[bid].renter_id,
   listing_id |-> IF op = "createListingReview"
                    THEN bookings[bid].listing_id ELSE "none",
   review_type |-> reviewType(op), overall_rating |-> rating,
   published_at |-> NoTime]

ReviewBegin(p, op, caller, bid, rating) ==
  /\ ReviewAccepts(op, caller, bid)
  /\ Start(p, [IdleCall EXCEPT !.op = op, !.pc = "insert", !.caller = caller,
                               !.bid = bid, !.rating = rating])
  /\ UNCHANGED <<listings, bookings, intents, refunds, now, apart>>

ReviewInsert(p) ==
  /\ calls[p].op \in ReviewOps /\ calls[p].pc = "insert"
  /\ \E dbok \in BOOLEAN :
       IF dbok
         THEN /\ reviews' = Append(reviews, NewReview(calls[p].op, calls[p].caller,
                                                      calls[p].bid, calls[p].rating))
              /\ Goto(p, "reviewed")
         ELSE /\ Finish(p, "error")
              /\ UNCHANGED reviews
  /\ UNCHANGED <<listings, bookings, intents, refunds, now, ncalls,
                 quoted, profiles>>

\* Mark the booking as reviewed by the renter or by the owner.
ReviewMarkBooking(p) ==
  /\ calls[p].op \in ReviewOps /\ calls[p].pc = "reviewed"
  /\ bookings' = IF calls[p].op = "createListingReview"
                   THEN [bookings EXCEPT ![calls[p].bid].renter_reviewed = TRUE]
                   ELSE [bookings EXCEPT ![calls[p].bid].owner_reviewed = TRUE]
  /\ Goto(p, "publish")
  /\ UNCHANGED <<listings, intents, refunds, now, ncalls, apart>>

\* A publication decision that only looks at the 14-day window.
shouldPublishWindowOnly(op, bid) == windowElapsed(bookings[bid].end_date, now)

\* shouldPublish: the counterpart's review exists or the window has elapsed.
shouldPublish(op, bid) ==
  \/ counterpartReview(bid, counterpartType(op)) # 0
  \/ windowElapsed(bookings[bid].end_date, now)

\* The reviews table after update({published_at}).eq('booking_id', bid).
publishReviews(bid, publishedAt) ==
  [r \in 1..Len(reviews) |->
     IF reviews[r].booking_id = bid
       THEN [reviews[r] EXCEPT !.published_at = publishedAt]
       ELSE reviews[r]]

\* The counterpart query, the publication decision and, when it is taken,
\* the update of published_at; otherwise the handler returns.
ReviewPublish(p) ==
  /\ calls[p].op \in ReviewOps /\ calls[p].pc = "publish"
  /\ IF shouldPublish(calls[p].op, calls[p].bid)
       THEN /\ reviews' = publishReviews(calls[p].bid, now)
            /\ Goto(p, IF calls[p].op = "createListingReview"
                         THEN "updateListingRating" ELSE "updateUserRating")
       ELSE /\ Finish(p, "success")
            /\ UNCHANGED reviews
  /\ UNCHANGED <<listings, bookings, intents, refunds, now, ncalls,
                 quoted, profiles>>

RECURSIVE SumRatings(_)
SumRatings(rows) ==
  IF rows = {} THEN 0
  ELSE LET r == CHOOSE x \in rows : TRUE
       IN reviews[r].overall_rating + SumRatings(rows \ {r})

\* Math.round(avgRating * 100) / 100, in hundredths.
averageRating(rows) == RoundHalfUp(100 * SumRatings(rows), Cardinality(rows))

\* An aggregator query without the published_at filter.
listingReviewsWithUnpublished(l) ==
  {r \in 1..Len(reviews) :
     reviews[r].listing_id = l /\ reviews[r].review_type = "listing"}

\* updateListingRating: the listing's published listing reviews.
listingReviews(l) ==
  {r \in 1..Len(reviews) :
     /\ reviews[r].listing_id = l /\ reviews[r].review_type = "listing"
     /\ reviews[r].published_at # NoTime}

\* updateUserRating: the published reviews of a user.
userReviews(u) ==
  {r \in 1..Len(reviews) :
     reviews[r].reviewee_id = u /\ reviews[r].published_at # NoTime}

updateListingRating(l) ==
  IF listingReviews(l) = {} THEN listings
  ELSE [listings EXCEPT ![l].average_rating = averageRating(listingReviews(l)),
                        ![l].total_reviews = Cardinality(listingReviews(l))]

updateUserRating(u) ==
  IF userReviews(u) = {} THEN profiles
  ELSE [profiles EXCEPT ![u].overall_rating = averageRating(userReviews(u)),
                        ![u].total_reviews = Cardinality(userReviews(u))]

\* createListingReview: await updateListingRating(booking.listing_id).
ReviewListingRating(p) ==
  /\ calls[p].op \in ReviewOps /\ calls[p].pc = "updateListingRating"
  /\ listings' = updateListingRating(bookings[calls[p].bid].listing_id)
  /\ Goto(p, "updateUserRating")
  /\ UNCHANGED <<bookings, intents, refunds, now, ncalls, apart>>

\* createListingReview: await updateUserRating(booking.owner_id);
\* createRenterReview: await updateUserRating(booking.renter_id); return.
ReviewUserRating(p) ==
  /\ calls[p].op \in ReviewOps /\ calls[p].pc = "updateUserRating"
  /\ profiles' = updateUserRating(IF calls[p].op = "createListingReview"
                                    THEN bookings[calls[p].bid].owner_id
                                    ELSE bookings[calls[p].bid].renter_id)
  /\ Finish(p, "success")
  /\ UNCHANGED <<listings, bookings, intents, refunds, now, ncalls,
                 quoted, reviews>>

\* One booking of listing L1 that ended 13, 14 or 15 days ago, completed or
\* still confirmed; no call made yet.
InitReviews ==
  /\ \E endDate \in (-REVIEW_WINDOW_DAYS - 1)..(-REVIEW_WINDOW_DAYS + 1),
        status \in {"completed", "confirmed"} :
       bookings = <<[StoredRow("L1", ListingRow(TRUE, "flexible", 2500),
                               endDate - 1, endDate, "owner_location")
                       EXCEPT !.status = status,
                              !.confirmed_at = 2 * (endDate - 2)]>>
  /\ listings = [l \in Listings |-> ListingRow(TRUE, "flexible", 2500)]
  /\ intents = <<NewIntent("payment"), NewIntent("deposit")>>
  /\ refunds = <<>>
  /\ calls = [p \in Procs |-> IdleCall]
  /\ now = 0
  /\ ncalls = 0
  /\ InitApart

NextReviews ==
  \/ \E p \in Procs, op \in ReviewOps, caller \in Users,
        bid \in 1..MaxBookings, rating \in Ratings :
       ReviewBegin(p, op, caller, bid, rating)
  \/ \E p \in Procs : ReviewInsert(p)
  \/ \E p \in Procs : ReviewMarkBooking(p)
  \/ \E p \in Procs : ReviewPublish(p)
  \/ \E p \in Procs : ReviewListingRating(p)
  \/ \E p \in Procs : ReviewUserRating(p)
  \/ Tick

SpecReviews == InitReviews /\ [][NextReviews]_vars

\* A submission that was accepted runs to its end, and time passes; nobody
\* is obliged to submit a review.
ReviewSteps ==
  \E p \in Procs :
    \/ ReviewInsert(p) \/ ReviewMarkBooking(p) \/ ReviewPublish(p)
    \/ ReviewListingRating(p) \/ ReviewUserRating(p)

SpecReviewsLive == SpecReviews /\ WF_vars(ReviewSteps) /\ WF_vars(Tick)

(* ------------------------- the fee calculator -------------------------- *)
\* A caller asks stripeService.calculateFees for the fees of a rental amount.
Quote(rentalAmount) ==
  /\ quoted' = calculateFees(rentalAmount)
  /\ UNCHANGED <<listings, bookings, intents, refunds, calls, now, ncalls,
                 response, reviews, profiles>>

NextFees == \E rentalAmount \in 0..MaxAmount : Quote(rentalAmount)

SpecFees == Init /\ [][NextFees]_vars

(* ----------------------------- pricing alone --------------------------- *)
\* An instant-booking listing with a daily rate of 25.00 or 80.00 and no
\* weekly rate, or one of 150.00 or 450.00; one call is left to be made.
InitPricing ==
  /\ \E rate \in {2500, 8000}, weekly \in {0, 15000, 45000} :
       listings = [l \in Listings |->
                     [ListingRow(TRUE, "flexible", rate) EXCEPT !.weekly_rate = weekly]]
  /\ bookings = <<>>
  /\ intents = <<>>
  /\ refunds = <<>>
  /\ calls = [p \in Procs |-> IdleCall]
  /\ now = 0
  /\ ncalls = MaxCalls - 1
  /\ InitApart

\* bookings.create for rentals of 1..MaxRentalDays days from day 0.
NextPricing ==
  \/ \E p \in Procs, caller \in Renters, l \in Listings,
        endDate \in 1..MaxRentalDays, pickup \in PickupMethods :
       CreateBegin(p, caller, l, 0, endDate, pickup)
  \/ \E p \in Procs : CreatePaymentIntent(p)
  \/ \E p \in Procs : CreateDepositHold(p)
  \/ \E p \in Procs : CreateInsert(p)

SpecPricing == InitPricing /\ [][NextPricing]_vars

(* ------------------------ listing configurations ----------------------- *)
\* (is_active, is_draft) of a published, a deactivated and a draft listing.
ListingStates == {<<TRUE, FALSE>>, <<FALSE, FALSE>>, <<TRUE, TRUE>>}

\* minimum_rental_days: 0 stands for a column that is NULL or 0 (the handler
\* compares rentalDays < null as rentalDays < 0); 1 is the default.
MinimumRentalDays == {0, 1, 2}

\* maximum_rental_days: 0 stands for NULL (not set).
MaximumRentalDays == {0, 2}

\* One listing in any of these configurations; one call has been made.
InitCreate ==
  /\ \E state \in ListingStates, minDays \in MinimumRentalDays,
        maxDays \in MaximumRentalDays :
       listings = [l \in Listings |->
                     [ListingRow(TRUE, "flexible", 2500) EXCEPT
                        !.is_active = state[1], !.is_draft = state[2],
                        !.minimum_rental_days = minDays,
                        !.maximum_rental_days = maxDays]]
  /\ bookings = <<>>
  /\ intents = <<>>
  /\ refunds = <<>>
  /\ calls = [p \in Procs |-> IdleCall]
  /\ now = 0
  /\ ncalls = 1
  /\ InitApart

NextCreate ==
  \/ \E p \in Procs, caller \in Renters, l \in Listings \cup {"L0"},
        startDate \in Days, endDate \in Days, pickup \in PickupMethods :
       CreateBegin(p, caller, l, startDate, endDate, pickup)
  \/ \E p \in Procs : CreatePaymentIntent(p)
  \/ \E p \in Procs : CreateDepositHold(p)
  \/ \E p \in Procs : CreateInsert(p)

SpecCreate == InitCreate /\ [][NextCreate]_vars

(* ============================ properties =============================== *)
Booked == 1..Len(bookings)

\* The date ranges [start_date, end_date) of two rows share a day.
RangesOverlap(a, b) == a.start_date < b.end_date /\ b.start_date < a.end_date

Active(b) == bookings[b].status \in {"confirmed", "in_progress"}

Terminal(b) == bookings[b].status \in {"completed", "cancelled", "declined"}

\* C1: in every reachable state no two bookings of one listing that are
\* confirmed or in_progress have overlapping date ranges.
C1_NoOverlappingActiveBookings ==
  \A a \in Booked, b \in Booked :
    (a # b /\ bookings[a].listing_id = bookings[b].listing_id
       /\ Active(a) /\ Active(b))
      => ~RangesOverlap(bookings[a], bookings[b])

\* C2: of two concurrent creates for one instant-booking listing and
\* overlapping dates only one persists a booking: a create never inserts its
\* row when, since its availability check, another create has inserted a row
\* of the same listing with overlapping dates.
C2_ConcurrentCreatesExclusive ==
  [][\A p \in Procs :
       (/\ calls[p].op = "create" /\ calls[p].pc = "insert" /\ calls[p].instant
        /\ calls'[p].pc = "idle"
        /\ Len(bookings') = Len(bookings) + 1)
         => \A b \in (calls[p].seen + 1)..Len(bookings) :
              ~(/\ bookings[b].listing_id = calls[p].row.listing_id
                /\ RangesOverlap(bookings[b], calls[p].row))]_vars

\* C3: every step that acts on a pending booking leaves its status pending,
\* confirmed, declined or cancelled; complete does not move it to completed.
C3_PendingLeavesOnlyToDecided ==
  [][\A b \in Booked :
       bookings[b].status = "pending"
         => bookings'[b].status \in {"pending", "confirmed", "declined", "cancelled"}]_vars

\* C4: once a booking is completed, cancelled or declined no approve,
\* decline, cancel or complete call is accepted on it, its row stays as it
\* is, and no refund or release is issued for its authorizations.
C4_TerminalIsFinal ==
  [][\A b \in Booked :
       Terminal(b) =>
         /\ \A p \in Procs :
              (~InFlight(p) /\ calls'[p].pc # "idle") => calls'[p].bid # b
         /\ bookings'[b] = bookings[b]
         /\ intents'[bookings[b].stripe_payment_intent_id]
              = intents[bookings[b].stripe_payment_intent_id]
         /\ intents'[bookings[b].stripe_deposit_hold_id]
              = intents[bookings[b].stripe_deposit_hold_id]
         /\ \A i \in (Len(refunds) + 1)..Len(refunds') :
              refunds'[i].payment_intent # bookings[b].stripe_payment_intent_id]_vars

\* C5: across all cancel calls of a booking the gateway refund of its
\* payment is issued at most once.
C5_RefundAtMostOnce ==
  \A i \in 1..Len(refunds), j \in 1..Len(refunds) :
    refunds[i].payment_intent = refunds[j].payment_intent => i = j

\* C6: of an approve and a decline of one booking at most one commits: a
\* declined booking is never confirmed and a confirmed one never declined.
C6_ApproveDeclineExclusive ==
  [][\A b \in Booked :
       /\ ~(bookings[b].status = "declined" /\ bookings'[b].status = "confirmed")
       /\ ~(bookings[b].status = "confirmed" /\ bookings'[b].status = "declined")]_vars

\* C7: a create whose payment authorization or deposit authorization fails
\* persists no booking, and every persisted booking carries the id of a
\* payment intent and the id of a deposit hold.
C7_NoBookingWithoutAuthorizations ==
  [][/\ \A p \in Procs :
          (/\ calls[p].op = "create"
           /\ calls[p].pc \in {"createPaymentIntent", "createDepositHold"}
           /\ calls'[p].pc = "idle")
            => bookings' = bookings
     /\ \A b \in 1..Len(bookings') :
          /\ bookings'[b].stripe_payment_intent_id \in 1..Len(intents')
          /\ bookings'[b].stripe_deposit_hold_id \in 1..Len(intents')
          /\ intents'[bookings'[b].stripe_payment_intent_id].kind = "payment"
          /\ intents'[bookings'[b].stripe_deposit_hold_id].kind = "deposit"]_vars

\* C7 witness: the payment was authorized, the deposit hold was refused, the
\* call is over and no booking exists.
C7_DepositHoldRefused ==
  /\ Len(intents) = 1
  /\ ncalls = 1
  /\ bookings = <<>>
  /\ \A p \in Procs : ~InFlight(p)

PricingFields(row) ==
  <<row.total_rental_fee, row.service_fee, row.delivery_fee,
    row.security_deposit, row.total_amount>>

\* C8: a booking is created with total_amount = total_rental_fee +
\* service_fee + delivery_fee, and no later step (approve, decline, cancel,
\* complete, an edit of the listing's prices) changes its pricing fields.
C8_PricingConsistent ==
  [][/\ \A b \in (Len(bookings) + 1)..Len(bookings') :
          bookings'[b].total_amount
            = bookings'[b].total_rental_fee + bookings'[b].service_fee
                + bookings'[b].delivery_fee
     /\ \A b \in Booked :
          PricingFields(bookings'[b]) = PricingFields(bookings[b])]_vars

\* The caller of the call on slot p may invoke its operation on its booking.
CallerAllowed(p) ==
  LET row == bookings[calls[p].bid]
  IN CASE calls[p].op \in {"approve", "decline", "complete"}
            -> calls[p].caller = row.owner_id
       [] calls[p].op = "cancel"
            -> calls[p].caller \in {row.renter_id, row.owner_id}
       [] OTHER -> FALSE

\* C9: approve, decline and complete go ahead only for the booking's owner
\* and cancel only for its renter or owner: every call accepted on a booking,
\* and every step that updates a booking, releases an authorization or
\* issues a refund, belongs to a call of such a caller.
C9_OnlyPartiesAct ==
  [][/\ \A p \in Procs :
          (calls'[p].pc # "idle" /\ calls'[p].op # "create")
            => (calls'[p].caller = bookings[calls'[p].bid].owner_id
                \/ (calls'[p].op = "cancel"
                    /\ calls'[p].caller = bookings[calls'[p].bid].renter_id))
     /\ ((\E b \in Booked : bookings'[b] # bookings[b])
          \/ refunds' # refunds
          \/ (\E i \in 1..Len(intents) : intents'[i] # intents[i]))
         => \E p \in Procs :
              InFlight(p) /\ calls'[p] # calls[p] /\ CallerAllowed(p)]_vars

\* C9 witness: the renter's cancel has passed the checks and the gateway
\* calls and is about to update the booking.
C9_RenterCancels ==
  \E p \in Procs :
    /\ calls[p].op = "cancel" /\ calls[p].pc = "update"
    /\ calls[p].caller = bookings[calls[p].bid].renter_id
    /\ intents[bookings[calls[p].bid].stripe_deposit_hold_id].status = "canceled"

\* C10: a booking is created confirmed with confirmed_at set when its
\* listing has instant booking, and pending with confirmed_at null otherwise.
C10_InitialStatus ==
  [][\A b \in (Len(bookings) + 1)..Len(bookings') :
       IF listings[bookings'[b].listing_id].instant_booking
         THEN bookings'[b].status = "confirmed" /\ bookings'[b].confirmed_at # NoTime
         ELSE bookings'[b].status = "pending" /\ bookings'[b].confirmed_at = NoTime]_vars

\* C10 witness: an instant booking stored as confirmed.
C10_InstantBookingConfirmed ==
  \E b \in Booked :
    /\ listings[bookings[b].listing_id].instant_booking
    /\ bookings[b].status = "confirmed"
    /\ bookings[b].confirmed_at # NoTime

\* C11: cancel computes the refund from the policy and the whole days until
\* the start: flexible, total_amount from 1 day on; moderate, total_amount
\* from 5 days on; strict, half of total_amount from 7 days on; 0 otherwise;
\* and the refund is a whole number of cents (calls[p].refund is in half
\* cents).
C11_RefundTable ==
  [][\A p \in Procs :
       (~InFlight(p) /\ calls'[p].op = "cancel") =>
         LET row == bookings[calls'[p].bid]
             policy == listings[row.listing_id].cancellation_policy
             days == daysUntilStart(row.start_date, now)
             total == row.total_amount
         IN \E cents \in 0..total :
              /\ calls'[p].refund = 2 * cents
              /\ CASE policy = "flexible" /\ days >= 1 -> cents = total
                   [] policy = "moderate" /\ days >= 5 -> cents = total
                   [] policy = "strict" /\ days >= 7
                        -> cents \in {total \div 2, (total + 1) \div 2}
                   [] OTHER -> cents = 0]_vars

\* C12: for every rental amount a the rounded outputs of calculateFees
\* satisfy totalCharge = a + processor fee and ownerEarnings = a - platformFee,
\* so that ownerEarnings + platformFee = a.
C12_FeeIdentities ==
  /\ quoted.totalCharge = quoted.rentalAmount + quoted.stripeFee
  /\ quoted.ownerEarnings = quoted.rentalAmount - quoted.platformFee
  /\ quoted.ownerEarnings + quoted.platformFee = quoted.rentalAmount

\* A review of the booking by the reviewer of the type is stored.
ReviewExists(bid, reviewer, type) ==
  \E r \in 1..Len(reviews) :
    /\ reviews[r].booking_id = bid
    /\ reviews[r].reviewer_id = reviewer
    /\ reviews[r].review_type = type

\* The booking is completed, the caller is the renter (listing review) or
\* the owner (renter review), and has not yet reviewed it.
MaySubmit(op, caller, bid) ==
  /\ bookings[bid].status = "completed"
  /\ caller = (IF op = "createListingReview"
                 THEN bookings[bid].renter_id ELSE bookings[bid].owner_id)
  /\ ~ReviewExists(bid, caller, reviewType(op))

\* C13: a review submission is accepted, and a review row inserted, only
\* when the booking is completed, the caller is the right party for the
\* review type and no review of that caller and type exists for the booking.
C13_ReviewGuards ==
  [][\A p \in Procs :
       /\ (~InFlight(p) /\ calls'[p].op \in ReviewOps)
            => MaySubmit(calls'[p].op, calls'[p].caller, calls'[p].bid)
       /\ (/\ calls[p].op \in ReviewOps /\ calls[p].pc = "insert"
           /\ calls'[p].pc = "reviewed")
            => MaySubmit(calls[p].op, calls[p].caller, calls[p].bid)]_vars

\* C14: when a review submission has evaluated publication, the booking's
\* reviews are published if and only if the counterpart's review exists or
\* 14 days or more have passed since the booking's end date (the clock is
\* in half days).
C14_PublicationGate ==
  [][\A p \in Procs :
       (/\ calls[p].op \in ReviewOps /\ calls[p].pc = "publish"
        /\ calls'[p].pc # "publish")
         => LET bid == calls[p].bid
                due == \/ \E r \in 1..Len(reviews) :
                            /\ reviews[r].booking_id = bid
                            /\ reviews[r].review_type = counterpartType(calls[p].op)
                       \/ now - 2 * bookings[bid].end_date >= 2 * 14
            IN \A r \in 1..Len(reviews') :
                 reviews'[r].booking_id = bid
                   => (reviews'[r].published_at # NoTime <=> due)]_vars

\* C15: in every state the listing review and the renter review of a booking
\* carry the same published_at: both null or both the same time.
C15_PublishedTogether ==
  \A a \in 1..Len(reviews), b \in 1..Len(reviews) :
    (/\ reviews[a].booking_id = reviews[b].booking_id
     /\ reviews[a].review_type # reviews[b].review_type)
      => reviews[a].published_at = reviews[b].published_at

\* The listing's rating columns are those of its published listing reviews.
ListingCurrent(l) ==
  /\ listings[l].total_reviews = Cardinality(listingReviews(l))
  /\ listingReviews(l) # {}
       => listings[l].average_rating = averageRating(listingReviews(l))

\* The user's rating columns are those of the published reviews of the user.
UserCurrent(u) ==
  /\ profiles[u].total_reviews = Cardinality(userReviews(u))
  /\ userReviews(u) # {}
       => profiles[u].overall_rating = averageRating(userReviews(u))

\* C16: when a review submission that has published the booking's reviews
\* returns, the rating columns of the booking's listing and of its owner and
\* renter reflect all published reviews, whichever side submitted last.
C16_AggregatesCurrent ==
  [][\A p \in Procs :
       (/\ calls[p].op \in ReviewOps /\ calls[p].pc = "updateUserRating"
        /\ calls'[p].pc = "idle")
         => \A l \in Listings, u \in Users :
              /\ l = bookings[calls[p].bid].listing_id => ListingCurrent(l)'
              /\ u \in {bookings[calls[p].bid].owner_id,
                         bookings[calls[p].bid].renter_id} => UserCurrent(u)']_vars

\* C17: in every state there is at most one review per booking, reviewer
\* and review type.
C17_OneReviewPerReviewer ==
  \A a \in 1..Len(reviews), b \in 1..Len(reviews) :
    (/\ reviews[a].booking_id = reviews[b].booking_id
     /\ reviews[a].reviewer_id = reviews[b].reviewer_id
     /\ reviews[a].review_type = reviews[b].review_type)
      => a = b

\* Both parties have reviewed the booking.
BothReviewed(bid) ==
  /\ \E r \in 1..Len(reviews) :
       reviews[r].booking_id = bid /\ reviews[r].review_type = "listing"
  /\ \E r \in 1..Len(reviews) :
       reviews[r].booking_id = bid /\ reviews[r].review_type = "renter"

\* C18: a stored review whose booking both parties have reviewed, or whose
\* booking ended 14 days ago or more, is eventually published.
C18_EventuallyPublished ==
  \A r \in 1..MaxCalls :
    (/\ r \in 1..Len(reviews)
     /\ \/ BothReviewed(reviews[r].booking_id)
        \/ now - 2 * bookings[reviews[r].booking_id].end_date >= 2 * 14)
      ~> (r \in 1..Len(reviews) /\ reviews[r].published_at # NoTime)

\* The call on slot p returns or throws in this step.
Returns(p) == InFlight(p) /\ ~InFlight(p)'

\* C19: a notification that cannot be sent never rolls back or blocks
\* bookings.create or bookings.approve: whenever create has inserted its
\* booking, or approve has confirmed one, the row stays as written and the
\* call reports success.
C19_NotificationFailureSwallowed ==
  [][\A p \in Procs :
       /\ (/\ Returns(p)
           /\ calls[p].op = "create"
           /\ Len(bookings') = Len(bookings) + 1)
            => /\ bookings'[Len(bookings')].status \in {"pending", "confirmed"}
               /\ response' = "success"
       /\ (/\ Returns(p)
           /\ calls[p].op = "approve"
           /\ bookings' # bookings)
            => /\ bookings'[calls[p].bid].status = "confirmed"
               /\ response' = "success"]_vars

\* The gateway calls a cancel or decline has to make for its booking: the
\* deposit release, the payment release of decline, the refund of cancel.
GatewayEffectsDue(call) ==
  LET row == bookings[call.bid]
  IN  (IF row.stripe_deposit_hold_id # NoId THEN 1 ELSE 0)
      + (IF call.op = "decline" /\ row.stripe_payment_intent_id # NoId
           THEN 1 ELSE 0)
      + (IF /\ call.op = "cancel" /\ call.refund > 0
            /\ row.stripe_payment_intent_id # NoId
           THEN 1 ELSE 0)

\* C20: cancel and decline are all-or-nothing: a call that reports failure
\* has applied no gateway effect and leaves the booking unchanged; a call
\* that reports success has applied every gateway effect and the booking is
\* cancelled, respectively declined.
C20_AllOrNothing ==
  [][\A p \in Procs :
       (Returns(p) /\ calls[p].op \in {"cancel", "decline"})
         => IF response' = "error"
              THEN /\ calls[p].applied = 0
                   /\ bookings'[calls[p].bid] = bookings[calls[p].bid]
              ELSE /\ calls[p].applied = GatewayEffectsDue(calls[p])
                   /\ bookings'[calls[p].bid].status =
                        IF calls[p].op = "cancel" THEN "cancelled" ELSE "declined"]_vars

\* A persisted booking, or a create still running, holds the intent's id.
Referenced(i) ==
  \/ \E b \in 1..Len(bookings) :
       i \in {bookings[b].stripe_payment_intent_id,
              bookings[b].stripe_deposit_hold_id}
  \/ \E p \in Procs :
       /\ calls[p].op = "create"
       /\ i \in {calls[p].row.stripe_payment_intent_id,
                 calls[p].row.stripe_deposit_hold_id}

\* C21: when bookings.create fails after the payment authorization was
\* obtained, no payment authorization or deposit hold stays outstanding at
\* the gateway without a persisted booking that references it: every open
\* intent belongs to a booking row or to a create that is still running.
C21_NoOrphanedAuthorization ==
  \A i \in 1..Len(intents) : intents[i].status = "open" => Referenced(i)

\* The published reviews the claim counts for a listing and for a user.
PublishedOfListing(l) ==
  {r \in 1..Len(reviews)' :
     /\ reviews'[r].listing_id = l /\ reviews'[r].review_type = "listing"
     /\ reviews'[r].published_at # NoTime}

PublishedOfUser(u) ==
  {r \in 1..Len(reviews)' :
     reviews'[r].reviewee_id = u /\ reviews'[r].published_at # NoTime}

\* avg (in hundredths) is the mean of the ratings of rows, to 2 decimals.
IsMean2(avg, rows) ==
  LET n == Cardinality(rows)
      d == avg * n - 100 * SumRatings(rows)
  IN  2 * d <= n /\ 2 * (-d) <= n

C24_OnlyActiveListings ==
  /\ \A p \in Procs :
       calls[p].op = "create" =>
         /\ listings[calls[p].row.listing_id].is_active
         /\ ~listings[calls[p].row.listing_id].is_draft
  /\ \A b \in 1..Len(bookings) :
       /\ listings[bookings[b].listing_id].is_active
       /\ ~listings[bookings[b].listing_id].is_draft

\* The row's rental_days lies within the limits of its listing.
WithinWindow(row) ==
  /\ listings[row.listing_id].minimum_rental_days <= row.rental_days
  /\ listings[row.listing_id].maximum_rental_days # 0
       => row.rental_days <= listings[row.listing_id].maximum_rental_days

Conflict(l, startDate, endDate) ==
  \E b \in 1..Len(bookings) :
    /\ bookings[b].listing_id = l
    /\ bookings[b].status = "confirmed" \/ bookings[b].status = "in_progress"
    /\ ~(bookings[b].start_date > endDate)
    /\ ~(bookings[b].end_date < startDate)

HoldReleased(b) ==
  /\ bookings[b].stripe_deposit_hold_id # NoId
  /\ intents[bookings[b].stripe_deposit_hold_id].status = "canceled"

\* No call on the booking is running.
Settled(b) == \A p \in Procs : InFlight(p) => calls[p].bid # b

\* C28: once the calls on a booking have returned, its deposit_released flag
\* is true whenever its deposit hold has been released at the gateway (by
\* decline, cancel or complete), and complete never issues a release for a
\* hold that is already released.
C28_DepositReleasedFlag ==
  [][/\ \A b \in 1..MaxBookings :
          (b <= Len(bookings') /\ HoldReleased(b)' /\ Settled(b)')
            => bookings'[b].deposit_released
     /\ \A p \in Procs :
          (/\ calls[p].op = "complete" /\ calls[p].pc = "releaseDeposit"
           /\ calls'[p].pc = "update")
            => ~HoldReleased(calls[p].bid)]_vars

\* C29: once a review's published_at has been set it never changes: no
\* later submission for the booking overwrites it.
C29_PublishedAtStable ==
  [][\A r \in 1..Len(reviews) :
       reviews[r].published_at # NoTime
         => reviews'[r].published_at = reviews[r].published_at]_vars

\* The reviews of the booking are one listing review and one renter review.
OneOfEach(bid) ==
  /\ Cardinality({r \in 1..Len(reviews) :
        reviews[r].booking_id = bid /\ reviews[r].review_type = "listing"}) = 1
  /\ Cardinality({r \in 1..Len(reviews) :
        reviews[r].booking_id = bid /\ reviews[r].review_type = "renter"}) = 1

====
